---------------------------- MODULE Spec2Model ----------------------------
(***************************************************************************)
(* TSSWF build pipeline (src/build.py): component expansion, build-time    *)
(* @IF/@ELSE conditionals with their condition evaluator, CSS scoping and  *)
(* the signal-expression compiler.                                         *)
(*                                                                         *)
(* Text is a sequence of tokens.  A token is one character (" ", "(", "{", *)
(* "0", "a", ...) or one keyword that the code only ever matches as a      *)
(* whole ("@IF", "@ELSE", "OR", "AND", "NOT", "true", "false").  The       *)
(* alphabet has no "." and no "'" token, so the float branch of            *)
(* parse_literal and its single-quote branch are not exercised.            *)
(***************************************************************************)
EXTENDS Integers, Sequences, FiniteSets, TLC

VARIABLES
    pc,               \* "input": arguments chosen, "done": the stage has run
    expr,             \* evaluator stage: the authored condition (syntax tree)
    evalOut,          \* evaluator stage: outcome of evaluate_condition
    pageOut,          \* evaluator stage: outcome of process_conditionals on @IF(expr){a}
    page,             \* conditional stage: the authored page, by its parts
    condOut,          \* conditional stage: outcome of process_conditionals
    css,              \* scoping stage: the component's style sheet, by characters
    markup,           \* scoping stage: the component's body (a class list)
    scope_id,         \* scoping stage: the scope identifier drawn for the occurrence
    scopeOut,         \* scoping stage: the (html, css) pair scope_css_selectors returns
    content,          \* component stage: the page given to process_components
    components,       \* component stage: the component definitions in storage
    compOut,          \* component stage: the markup process_components returns
    signal_counter,   \* signal stage: the module-level _signal_counter
    sigHtml,          \* signal stage: the page being written, a sequence of start tags
    sigOut,           \* signal stage: what process_signal_expressions returned for it
    builds            \* signal stage: the number of pages built so far

evalVars == <<expr, evalOut, pageOut>>
condVars == <<page, condOut>>
scopeVars == <<css, markup, scope_id, scopeOut>>
compVars == <<content, components, compOut>>
sigVars == <<signal_counter, sigHtml, sigOut, builds>>
vars == <<pc, evalVars, condVars, scopeVars, compVars, sigVars>>

(***************************************************************************)
(* Sequence helpers (Python str methods and slices)                        *)
(***************************************************************************)
IsWs(t) == t = " "

Range(s) == {s[k] : k \in 1..Len(s)}

\* s[a..b] with out-of-range bounds clipped, like a Python slice
Slice(s, a, b) == IF a > b THEN <<>> ELSE SubSeq(s, a, b)

RECURSIVE lstrip(_)
lstrip(s) == IF s # <<>> /\ IsWs(s[1]) THEN lstrip(Tail(s)) ELSE s

RECURSIVE rstrip(_)
rstrip(s) == IF s # <<>> /\ IsWs(s[Len(s)]) THEN rstrip(Slice(s, 1, Len(s) - 1)) ELSE s

strip(s) == rstrip(lstrip(s))

\* pat occurs in s at index p
OccursAt(s, pat, p) ==
    /\ p >= 1
    /\ p + Len(pat) - 1 <= Len(s)
    /\ \A k \in 1..Len(pat) : s[p + k - 1] = pat[k]

\* first index >= from at which pat occurs in s, 0 when there is none (str.find)
Find(s, pat, from) ==
    LET hits == {p \in from..Len(s) : OccursAt(s, pat, p)}
    IN  IF hits = {} THEN 0 ELSE CHOOSE p \in hits : \A q \in hits : p <= q

\* last index of the whitespace run that starts at p (p - 1 when s[p] is no whitespace)
RECURSIVE WsRunEnd(_, _)
WsRunEnd(s, p) == IF p <= Len(s) /\ IsWs(s[p]) THEN WsRunEnd(s, p + 1) ELSE p - 1

(***************************************************************************)
(* Conditional processing: literals and conditions                         *)
(***************************************************************************)
Digits == {"0", "1", "2", "3"}

DigitVal(t) == CASE t = "0" -> 0 [] t = "1" -> 1 [] t = "2" -> 2 [] t = "3" -> 3

\* code point order of the tokens, for Python's string ordering
Code(t) ==
    CASE t = " " -> 32 [] t = "!" -> 33 [] t = "\"" -> 34 [] t = "(" -> 40
      [] t = ")" -> 41 [] t = "0" -> 48 [] t = "1" -> 49 [] t = "2" -> 50
      [] t = "3" -> 51 [] t = "<" -> 60 [] t = "=" -> 61 [] t = ">" -> 62
      [] t = "@IF" -> 64 [] t = "@ELSE" -> 64 [] t = "AND" -> 65 [] t = "NOT" -> 78
      [] t = "OR" -> 79 [] t = "a" -> 97 [] t = "b" -> 98 [] t = "false" -> 102
      [] t = "true" -> 116 [] t = "x" -> 120 [] t = "{" -> 123 [] t = "}" -> 125
      [] OTHER -> 127

\* Python values: t is "int", "bool" or "str"; n the number (a bool is 0 or 1)
IntV(n) == [t |-> "int", n |-> n, s |-> <<>>]
BoolV(b) == [t |-> "bool", n |-> IF b THEN 1 ELSE 0, s |-> <<>>]
StrV(s) == [t |-> "str", n |-> 0, s |-> s]

RECURSIVE DecimalValue(_)
DecimalValue(s) ==
    IF s = <<>> THEN 0 ELSE 10 * DecimalValue(Slice(s, 1, Len(s) - 1)) + DigitVal(s[Len(s)])

parse_literal(value) ==
    LET v == strip(value)
    IN  IF v # <<>> /\ v[1] = "\"" /\ v[Len(v)] = "\"" THEN StrV(Slice(v, 2, Len(v) - 1))
        ELSE IF v # <<>> /\ Range(v) \subseteq Digits THEN IntV(DecimalValue(v))
        ELSE IF v = <<"true">> THEN BoolV(TRUE)
        ELSE IF v = <<"false">> THEN BoolV(FALSE)
        ELSE StrV(v)

\* bool(x)
Truthy(x) == IF x.t = "str" THEN x.s # <<>> ELSE x.n # 0

RECURSIVE StrLess(_, _)
StrLess(a, b) ==
    IF b = <<>> THEN FALSE
    ELSE IF a = <<>> THEN TRUE
    ELSE IF Code(a[1]) # Code(b[1]) THEN Code(a[1]) < Code(b[1])
    ELSE StrLess(Tail(a), Tail(b))

PyEq(x, y) ==
    IF x.t = "str" /\ y.t = "str" THEN x.s = y.s
    ELSE IF x.t # "str" /\ y.t # "str" THEN x.n = y.n
    ELSE FALSE

PyLess(x, y) == IF x.t = "str" THEN StrLess(x.s, y.s) ELSE x.n < y.n

\* outcome of a call: a boolean, or a raised TypeError
Ret(b) == [raised |-> FALSE, value |-> b]
Raise == [raised |-> TRUE, value |-> FALSE]

\* operator.le/ge/ne/eq/lt/gt; ordering a str against a number raises TypeError
ApplyOp(name, x, y) ==
    IF name = "eq" THEN Ret(PyEq(x, y))
    ELSE IF name = "ne" THEN Ret(~PyEq(x, y))
    ELSE IF (x.t = "str") # (y.t = "str") THEN Raise
    ELSE IF name = "lt" THEN Ret(PyLess(x, y))
    ELSE IF name = "gt" THEN Ret(PyLess(y, x))
    ELSE IF name = "le" THEN Ret(~PyLess(y, x))
    ELSE Ret(~PyLess(x, y))

COMPARISON_OPS ==
    << [sym |-> <<"<", "=">>, name |-> "le"],
       [sym |-> <<">", "=">>, name |-> "ge"],
       [sym |-> <<"!", "=">>, name |-> "ne"],
       [sym |-> <<"=", "=">>, name |-> "eq"],
       [sym |-> <<"<">>,      name |-> "lt"],
       [sym |-> <<">">>,      name |-> "gt"] >>

\* re.split(r'\s+KW\s+', s): the parts between the non-overlapping matches
KwMatchAt(s, kw, p) ==
    /\ p <= Len(s) /\ IsWs(s[p])
    /\ LET j == WsRunEnd(s, p)
       IN  j + 2 <= Len(s) /\ s[j + 1] = kw /\ IsWs(s[j + 2])

RECURSIVE re_split(_, _)
re_split(s, kw) ==
    LET hits == {p \in 1..Len(s) : KwMatchAt(s, kw, p)}
    IN  IF hits = {} THEN <<s>>
        ELSE LET p == CHOOSE q \in hits : \A r \in hits : q <= r
                 e == WsRunEnd(s, WsRunEnd(s, p) + 2)
             IN  <<Slice(s, 1, p - 1)>> \o re_split(Slice(s, e + 1, Len(s)), kw)

RECURSIVE evaluate_condition(_), AnyPart(_, _), AllPart(_, _)
\* any(evaluate_condition(part) for part in parts): stops at the first True
AnyPart(parts, k) ==
    IF k > Len(parts) THEN Ret(FALSE)
    ELSE LET r == evaluate_condition(parts[k])
         IN  IF r.raised \/ r.value THEN r ELSE AnyPart(parts, k + 1)

\* all(evaluate_condition(part) for part in parts): stops at the first False
AllPart(parts, k) ==
    IF k > Len(parts) THEN Ret(TRUE)
    ELSE LET r == evaluate_condition(parts[k])
         IN  IF r.raised \/ ~r.value THEN r ELSE AllPart(parts, k + 1)

Compare(c) ==
    LET present == {k \in 1..Len(COMPARISON_OPS) : Find(c, COMPARISON_OPS[k].sym, 1) > 0}
    IN  IF present = {} THEN Ret(Truthy(parse_literal(c)))
        ELSE LET k == CHOOSE q \in present : \A r \in present : q <= r
                 op == COMPARISON_OPS[k]
                 at == Find(c, op.sym, 1)
                 left == Slice(c, 1, at - 1)
                 right == Slice(c, at + Len(op.sym), Len(c))
                 right_val == IF right = <<>> THEN BoolV(Truthy(parse_literal(left)))
                              ELSE parse_literal(right)
             IN  ApplyOp(op.name, parse_literal(left), right_val)

evaluate_condition(condition) ==
    LET c == strip(condition)
        or_parts == re_split(c, "OR")
        and_parts == re_split(c, "AND")
    IN  IF Len(or_parts) > 1 THEN AnyPart(or_parts, 1)
        ELSE IF Len(and_parts) > 1 THEN AllPart(and_parts, 1)
        ELSE IF Len(c) >= 2 /\ c[1] = "NOT" /\ c[2] = " "
             THEN LET r == evaluate_condition(Slice(c, 3, Len(c)))
                  IN  IF r.raised THEN r ELSE Ret(~r.value)
        ELSE IF Len(c) >= 2 /\ c[1] = "(" /\ c[Len(c)] = ")"
             THEN evaluate_condition(Slice(c, 2, Len(c) - 1))
        ELSE Compare(c)


(***************************************************************************)
(* Conditional processing: @IF / @ELSE blocks                              *)
(***************************************************************************)
\* outcome of process_conditionals: the output text, or a raised TypeError;
\* evals counts the calls of evaluate_condition the run made
Out(text, n) == [raised |-> FALSE, out |-> text, evals |-> n]
Raised == [raised |-> TRUE, out |-> <<>>, evals |-> 0]

\* first position >= p that holds no whitespace
RECURSIVE SkipWs(_, _)
SkipWs(s, p) == IF p <= Len(s) /\ IsWs(s[p]) THEN SkipWs(s, p + 1) ELSE p

\* position of the closing brace matching the brace at start, 0 for Python's -1
RECURSIVE BraceScan(_, _, _)
BraceScan(text, p, depth) ==
    IF p > Len(text) THEN 0
    ELSE IF text[p] = "{" THEN BraceScan(text, p + 1, depth + 1)
    ELSE IF text[p] = "}" THEN IF depth - 1 = 0 THEN p ELSE BraceScan(text, p + 1, depth - 1)
    ELSE BraceScan(text, p + 1, depth)

\* a matcher that takes the first "}" and does not count depth
first_closing_brace(text, start) == Find(text, <<"}">>, start)

find_matching_brace(text, start) == BraceScan(text, start, 0)

\* re.search(r'@IF\s*\(', html[i:]): start of the leftmost match at or after i, 0 for none
IfSearch(html, i) ==
    LET hits == {p \in i..Len(html) :
                    /\ html[p] = "@IF"
                    /\ SkipWs(html, p + 1) <= Len(html)
                    /\ html[SkipWs(html, p + 1)] = "("}
    IN  IF hits = {} THEN 0 ELSE CHOOSE p \in hits : \A q \in hits : p <= q

\* the while loop that looks for the parenthesis closing the condition:
\* the position after the last character it reads
RECURSIVE ParenScan(_, _, _)
ParenScan(html, p, paren_depth) ==
    IF p <= Len(html) /\ paren_depth > 0
    THEN ParenScan(html, p + 1,
                   IF html[p] = "(" THEN paren_depth + 1
                   ELSE IF html[p] = ")" THEN paren_depth - 1
                   ELSE paren_depth)
    ELSE p

\* re.match(r'\s*@ELSE\s*\{', html[i:]): position of its "{", 0 for no match
ElseMatch(html, p) ==
    LET w == SkipWs(html, p)
        b == SkipWs(html, w + 1)
    IN  IF w <= Len(html) /\ html[w] = "@ELSE" /\ b <= Len(html) /\ html[b] = "{"
        THEN b ELSE 0

\* result.append(before); result.append(chosen); then the rest of the loop;
\* n is the number of conditions this iteration evaluated itself
Join(before, n, chosen, rest) ==
    IF chosen.raised \/ rest.raised THEN Raised
    ELSE Out(before \o chosen.out \o rest.out, n + chosen.evals + rest.evals)

RECURSIVE process_conditionals(_), Loop(_, _)
\* the body of "while i < len(html)" from position i on: what it appends to result
Loop(html, i) ==
    IF i > Len(html) THEN Out(<<>>, 0)
    ELSE
    LET at == IfSearch(html, i)
    IN  IF at = 0 THEN Out(Slice(html, i, Len(html)), 0)
        ELSE
        LET before == Slice(html, i, at - 1)
            cond_start == SkipWs(html, at + 1) + 1
            after_cond == ParenScan(html, cond_start, 1)
            condition == Slice(html, cond_start, after_cond - 2)
            brace == SkipWs(html, after_cond)
        IN  IF brace > Len(html) \/ html[brace] # "{"
            THEN Join(before, 0, Out(<<>>, 0), Loop(html, brace))
            ELSE
            LET brace_end == find_matching_brace(html, brace)
            IN  IF brace_end = 0
                THEN Join(before, 0, Out(<<>>, 0), Loop(html, brace))
                ELSE
                LET if_content == Slice(html, brace + 1, brace_end - 1)
                    else_brace == ElseMatch(html, brace_end + 1)
                    else_end == IF else_brace = 0 THEN 0
                                ELSE find_matching_brace(html, else_brace)
                    else_content == IF else_end = 0 THEN <<>>
                                    ELSE Slice(html, else_brace + 1, else_end - 1)
                    next == IF else_brace = 0 THEN brace_end + 1
                            ELSE IF else_end = 0 THEN else_brace + 1
                            ELSE else_end + 1
                    verdict == evaluate_condition(condition)
                IN  IF verdict.raised THEN Raised
                    ELSE Join(before, 1,
                              process_conditionals(IF verdict.value THEN if_content
                                                   ELSE else_content),
                              Loop(html, next))

process_conditionals(html) == Loop(html, 1)


(***************************************************************************)
(* Conditions as an author writes them: a syntax tree and its text         *)
(***************************************************************************)
Literals ==
    { <<"0">>, <<"1">>, <<"2">>, <<"\"", "a", "\"">>, <<"\"", "\"">>,
      <<"true">>, <<"false">>, <<"x">> }

OpSyms == {COMPARISON_OPS[k].sym : k \in 1..Len(COMPARISON_OPS)}

OpName(sym) ==
    COMPARISON_OPS[CHOOSE k \in 1..Len(COMPARISON_OPS) : COMPARISON_OPS[k].sym = sym].name

Lit(l) == [op |-> "lit", a |-> l, b |-> <<>>, sym |-> <<>>]
\* "l sym r"; an empty r is the shorthand "l sym"
Cmp(l, sym, r) == [op |-> "cmp", a |-> l, b |-> r, sym |-> sym]
Not(e) == [op |-> "not", a |-> e, b |-> <<>>, sym |-> <<>>]
Paren(e) == [op |-> "paren", a |-> e, b |-> <<>>, sym |-> <<>>]
And(e, f) == [op |-> "and", a |-> e, b |-> f, sym |-> <<>>]
Or(e, f) == [op |-> "or", a |-> e, b |-> f, sym |-> <<>>]

\* right-hand sides of the authored comparisons; <<>> is the shorthand "l sym"
RightSides == { <<"1">>, <<"\"", "a", "\"">>, <<"true">>, <<"x">>, <<>> }

Atoms ==
    {Lit(l) : l \in Literals}
      \cup {Cmp(l, sym, r) : l \in Literals, sym \in OpSyms, r \in RightSides}

\* operands an author joins with AND / OR
Operands == {Lit(<<"0">>), Lit(<<"1">>)}

RECURSIVE Render(_)
Render(e) ==
    CASE e.op = "lit" -> e.a
      [] e.op = "cmp" -> IF e.b = <<>> THEN e.a \o <<" ">> \o e.sym
                         ELSE e.a \o <<" ">> \o e.sym \o <<" ">> \o e.b
      [] e.op = "not" -> <<"NOT", " ">> \o Render(e.a)
      [] e.op = "paren" -> <<"(">> \o Render(e.a) \o <<")">>
      [] e.op = "and" -> Render(e.a) \o <<" ", "AND", " ">> \o Render(e.b)
      [] e.op = "or" -> Render(e.a) \o <<" ", "OR", " ">> \o Render(e.b)

RECURSIVE Connectives(_)
Connectives(e) ==
    CASE e.op \in {"lit", "cmp"} -> 0
      [] e.op \in {"not", "paren"} -> 1 + Connectives(e.a)
      [] OTHER -> 1 + Connectives(e.a) + Connectives(e.b)

(***************************************************************************)
(* Evaluator stage: a condition is authored, then a page holding           *)
(* @IF(condition){a} is built                                              *)
(***************************************************************************)
MaxConnectives == 3

\* the variables of a stage that a behaviour does not exercise
EvalIdle == expr = Lit(<<>>) /\ evalOut = Ret(FALSE) /\ pageOut = Out(<<>>, 0)
CondIdle == page = <<>> /\ condOut = Out(<<>>, 0)
ScopeIdle == css = <<>> /\ markup = <<>> /\ scope_id = <<>> /\ scopeOut = <<>>
CompIdle == content = <<>> /\ components = <<>> /\ compOut = <<>>
SigIdle == signal_counter = 0 /\ sigHtml = <<>> /\ sigOut = <<>> /\ builds = 0

InitEval ==
    /\ pc = "input"
    /\ expr \in Atoms
    /\ evalOut = Ret(FALSE)
    /\ pageOut = Out(<<>>, 0)
    /\ CondIdle /\ ScopeIdle /\ CompIdle /\ SigIdle

Room == pc = "input" /\ Connectives(expr) < MaxConnectives

\* NOT binds tighter than AND and OR: it is written in front of a literal, a
\* comparison, a parenthesis or another NOT
WriteNot ==
    /\ Room
    /\ expr.op \in {"lit", "cmp", "paren", "not"}
    /\ expr' = Not(expr)
    /\ UNCHANGED <<pc, evalOut, pageOut, condVars, scopeVars, compVars, sigVars>>

WriteParen ==
    /\ Room
    /\ expr' = Paren(expr)
    /\ UNCHANGED <<pc, evalOut, pageOut, condVars, scopeVars, compVars, sigVars>>

\* AND binds tighter than OR: an OR operand of AND has to be parenthesised first
WriteAnd ==
    /\ Room
    /\ expr.op # "or"
    /\ \E o \in Operands : expr' = And(expr, o)
    /\ UNCHANGED <<pc, evalOut, pageOut, condVars, scopeVars, compVars, sigVars>>

WriteOr ==
    /\ Room
    /\ \E o \in Operands : expr' = Or(expr, o)
    /\ UNCHANGED <<pc, evalOut, pageOut, condVars, scopeVars, compVars, sigVars>>

Evaluate ==
    /\ pc = "input"
    /\ evalOut' = evaluate_condition(Render(expr))
    /\ pageOut' = process_conditionals(<<"@IF", "(">> \o Render(expr) \o <<")", "{", "a", "}">>)
    /\ pc' = "done"
    /\ UNCHANGED <<expr, condVars, scopeVars, compVars, sigVars>>

NextEval == WriteNot \/ WriteParen \/ WriteAnd \/ WriteOr \/ Evaluate

SpecEval == InitEval /\ [][NextEval]_vars

(***************************************************************************)
(* Claims about the condition evaluator (checked under SpecEval)           *)
(***************************************************************************)
\* every comparison leaf has both operands and its operator is defined on them
RECURSIVE LeavesDefined(_)
LeavesDefined(e) ==
    CASE e.op = "lit" -> TRUE
      [] e.op = "cmp" -> /\ e.b # <<>>
                         /\ ~ApplyOp(OpName(e.sym), parse_literal(e.a), parse_literal(e.b)).raised
      [] e.op \in {"not", "paren"} -> LeavesDefined(e.a)
      [] OTHER -> LeavesDefined(e.a) /\ LeavesDefined(e.b)

\* the standard boolean reading of a condition: a parenthesis is one unit
RECURSIVE Standard(_)
Standard(e) ==
    CASE e.op = "lit" -> Truthy(parse_literal(e.a))
      [] e.op = "cmp" -> ApplyOp(OpName(e.sym), parse_literal(e.a), parse_literal(e.b)).value
      [] e.op = "not" -> ~Standard(e.a)
      [] e.op = "paren" -> Standard(e.a)
      [] e.op = "and" -> Standard(e.a) /\ Standard(e.b)
      [] e.op = "or" -> Standard(e.a) \/ Standard(e.b)

\* C3: the conditional stage is total: evaluate_condition returns a boolean for
\* every authored condition, and process_conditionals returns a text for the page
\* @IF(condition){a}; neither raises an error.
C3_Total == pc = "done" => ~evalOut.raised /\ ~pageOut.raised

\* C4: for a condition built from literals and comparisons with OR, AND, NOT and
\* parentheses, evaluate_condition returns the value of the standard boolean
\* reading (OR weakest, AND tighter, NOT tightest, a parenthesis evaluated as one
\* unit).
C4_StandardReading ==
    (pc = "done" /\ LeavesDefined(expr)) => evalOut = Ret(Standard(expr))

\* C7: for the shorthand "left ==" (empty right-hand side) evaluate_condition
\* returns the truthiness of the left literal.
C7_ShorthandIsTruthiness ==
    (pc = "done" /\ expr.op = "cmp" /\ expr.sym = <<"=", "=">> /\ expr.b = <<>>)
        => evalOut = Ret(Truthy(parse_literal(expr.a)))

(***************************************************************************)
(* Conditional stage: a page holding one @IF construct is authored, may be *)
(* nested as a branch of an outer construct, and is then built             *)
(*                                                                         *)
(*   pre @IF( cond ) gap { ifB } [@ELSE { elseB }] post                    *)
(*                                                                         *)
(* form tells what the author left out: nothing ("ok"), the ")" closing    *)
(* the condition ("noparen"), the "{" after it ("nobrace") or the "}"      *)
(* closing the if-branch ("noclose").  The branches of the innermost       *)
(* construct are any text over "a", "{", "}", balanced or not.             *)
(***************************************************************************)
MaxLeaf == 2
MaxDepth == 1

RECURSIVE Texts(_, _)
\* every text of at most n tokens over the alphabet
Texts(alphabet, n) ==
    IF n = 0 THEN {<<>>}
    ELSE LET shorter == Texts(alphabet, n - 1)
         IN  shorter \cup {Append(t, x) : t \in shorter, x \in alphabet}

Leafs == Texts({"a", "{", "}"}, MaxLeaf)

Conds == { <<"0">>, <<"1">>, <<"(", "0", ")">>, <<"x", "<", "1">> }

Forms == {"ok", "noparen", "nobrace", "noclose"}

ElseForms == {"none", "ok", "spaced", "noclose"}

ElseText(p) ==
    CASE p.elseForm = "none" -> <<>>
      [] p.elseForm = "ok" -> <<"@ELSE", "{">> \o p.elseB \o <<"}">>
      [] p.elseForm = "spaced" -> <<" ", "@ELSE", " ", "{">> \o p.elseB \o <<"}">>
      [] p.elseForm = "noclose" -> <<"@ELSE", "{">> \o p.elseB

\* the text of the page
Assemble(p) ==
    p.pre \o <<"@IF", "(">> \o p.cond
        \o (IF p.form = "noparen" THEN <<>> ELSE <<")">>)
        \o p.gap
        \o (IF p.form = "nobrace" THEN <<>> ELSE <<"{">>)
        \o p.ifB
        \o (IF p.form = "noclose" THEN <<>> ELSE <<"}">>)
        \o ElseText(p)
        \o p.post

Count(s, x, k) == Cardinality({j \in 1..k : s[j] = x})

\* every closer has its opener before it, and every opener is closed
Balanced(s, open, close) ==
    /\ \A k \in 1..Len(s) : Count(s, close, k) <= Count(s, open, k)
    /\ Count(s, close, Len(s)) = Count(s, open, Len(s))

\* @IF(c) { A } optionally followed by @ELSE { B }, parentheses balanced in c
\* and braces balanced in A and B
WellFormed(p) ==
    /\ p.form = "ok"
    /\ Balanced(p.cond, "(", ")")
    /\ Balanced(p.ifB, "{", "}")
    /\ p.elseForm # "noclose"
    /\ Balanced(p.elseB, "{", "}")

InitCond ==
    /\ pc = "input"
    /\ \E cond \in Conds, form \in Forms, gap \in {<<>>, <<" ">>}, ifB \in Leafs,
          elseForm \in ElseForms, around \in BOOLEAN :
          LET p == [ pre |-> IF around THEN <<"p">> ELSE <<>>,
                     cond |-> cond, form |-> form, gap |-> gap, ifB |-> ifB,
                     elseForm |-> elseForm,
                     elseB |-> CASE elseForm = "none" -> <<>>
                                 [] elseForm = "spaced" -> <<"{", "b", "}">>
                                 [] OTHER -> <<"b">>,
                     post |-> IF around THEN <<" ", "p">> ELSE <<>>,
                     depth |-> 0,
                     allWellFormed |-> FALSE ]
          IN  page = [p EXCEPT !.allWellFormed = WellFormed(p)]
    /\ condOut = Out(<<>>, 0)
    /\ EvalIdle /\ ScopeIdle /\ CompIdle /\ SigIdle

\* the page so far becomes one branch of an outer, well-formed construct
Nest ==
    /\ pc = "input"
    /\ page.depth < MaxDepth
    /\ \E cond \in {<<"0">>, <<"1">>}, asIf \in BOOLEAN :
          page' = [ pre |-> <<>>, cond |-> cond, form |-> "ok", gap |-> <<" ">>,
                    ifB |-> IF asIf THEN Assemble(page) ELSE <<"c">>,
                    elseForm |-> "ok",
                    elseB |-> IF asIf THEN <<"c">> ELSE Assemble(page),
                    post |-> <<>>,
                    depth |-> page.depth + 1,
                    allWellFormed |-> page.allWellFormed ]
    /\ UNCHANGED <<pc, condOut, evalVars, scopeVars, compVars, sigVars>>

Build ==
    /\ pc = "input"
    /\ condOut' = process_conditionals(Assemble(page))
    /\ pc' = "done"
    /\ UNCHANGED <<page, evalVars, scopeVars, compVars, sigVars>>

NextCond == Nest \/ Build

SpecCond == InitCond /\ [][NextCond]_vars

(***************************************************************************)
(* Claims about the conditional stage (checked under SpecCond)             *)
(***************************************************************************)
\* nothing in s closes an opener that precedes s
NeverCloses(s, open, close) ==
    \A k \in 1..Len(s) : Count(s, close, k) <= Count(s, open, k)

Verdict(p) == evaluate_condition(p.cond)

Chosen(p) == IF Verdict(p).value THEN p.ifB ELSE p.elseB

Discarded(p) == IF Verdict(p).value THEN p.elseB ELSE p.ifB

Letters(s) == Range(s) \cap {"a", "b", "c", "p"}

\* C1: a well-formed construct @IF(c){A} [@ELSE{B}] is replaced as a whole by
\* process_conditionals(A) when evaluate_condition(c) is true and by
\* process_conditionals(B) (empty without @ELSE) when it is false: one condition
\* is evaluated for it, the text before and after it is unchanged, and when every
\* construct of the page is well-formed no @IF / @ELSE token is left in the output.
C1_OneBranchRetained ==
    (pc = "done" /\ WellFormed(page) /\ ~Verdict(page).raised) =>
        /\ condOut = Join(page.pre, 1, process_conditionals(Chosen(page)), Out(page.post, 0))
        /\ (page.allWellFormed /\ ~condOut.raised)
              => Range(condOut.out) \cap {"@IF", "@ELSE"} = {}

\* a nested well-formed construct was resolved inside the retained branch of a
\* well-formed outer construct
C1_Witness ==
    /\ pc = "done" /\ WellFormed(page) /\ page.allWellFormed /\ page.depth = 1
    /\ "@IF" \in Range(Chosen(page))
    /\ ~condOut.raised /\ condOut.evals = 2
    /\ "{" \in Range(condOut.out)

\* C2: when the branch the outer condition discards holds a nested @IF, balanced
\* or not, no text of the discarded branch appears in the output and no condition
\* inside it is evaluated.
C2_DiscardedNeverSurfaces ==
    (/\ pc = "done" /\ page.form = "ok" /\ page.elseForm # "noclose"
     /\ Balanced(page.cond, "(", ")") /\ ~Verdict(page).raised
     /\ "@IF" \in Range(Discarded(page))
     /\ Letters(Discarded(page)) \cap Letters(Chosen(page) \o page.pre \o page.post) = {})
        => /\ ~condOut.raised
           /\ Letters(Discarded(page)) \cap Range(condOut.out) = {}
           /\ condOut.evals = 1 + process_conditionals(Chosen(page)).evals

\* the one construct of the page is malformed in one of the three ways
Malformed(p) ==
    /\ p.depth = 0
    /\ Balanced(p.cond, "(", ")")
    /\ \/ p.form = "nobrace"
       \/ p.form = "noparen"
            /\ NeverCloses(p.gap \o <<"{">> \o p.ifB \o <<"}">> \o ElseText(p) \o p.post,
                           "(", ")")
       \/ p.form = "noclose" /\ NeverCloses(p.ifB \o ElseText(p) \o p.post, "{", "}")

\* C10: a malformed construct (no "{" after the condition, an if-branch whose
\* brace never closes, a condition whose parenthesis never closes) is left in the
\* output as it is, with every character of the markup that follows it.
C10_MalformedLeftAsIs ==
    (pc = "done" /\ Malformed(page)) =>
        ~condOut.raised /\ condOut.out = Assemble(page)

(***************************************************************************)
(* Component processing: scoping the class names of a styled component     *)
(* Text is a sequence of characters here.                                  *)
(***************************************************************************)
NameStart == {"a", "b", "_"}
NameChars == {"a", "b", "_", "-", "0", "1", "2", "3", "4", "5", "6", "7", "8", "9"}
DigitChars == {"0", "1", "2", "3", "4", "5", "6", "7", "8", "9"}

\* the selector that re.findall matches at p: (?<![0-9])\.[a-zA-Z_][a-zA-Z0-9_-]*
SelectorAt(text, p) ==
    /\ text[p] = "."
    /\ p = 1 \/ text[p - 1] \notin DigitChars
    /\ p + 1 <= Len(text) /\ text[p + 1] \in NameStart

\* last position of the run of name characters that starts at p
RECURSIVE NameEnd(_, _)
NameEnd(text, p) ==
    IF p + 1 <= Len(text) /\ text[p + 1] \in NameChars THEN NameEnd(text, p + 1) ELSE p

\* re.findall: the non-overlapping matches from position p on, left to right
RECURSIVE findall(_, _)
findall(text, p) ==
    IF p > Len(text) THEN <<>>
    ELSE IF SelectorAt(text, p)
         THEN <<Slice(text, p, NameEnd(text, p + 1))>> \o findall(text, NameEnd(text, p + 1) + 1)
         ELSE findall(text, p + 1)

\* str.replace(old, new): every non-overlapping occurrence, left to right
RECURSIVE replace(_, _, _)
replace(text, old, new) ==
    LET at == Find(text, old, 1)
    IN  IF at = 0 THEN text
        ELSE Slice(text, 1, at - 1) \o new
                 \o replace(Slice(text, at + Len(old), Len(text)), old, new)

\* the for loop over the selectors, from the k-th on
RECURSIVE ScopeLoop(_, _, _, _, _)
ScopeLoop(html, style, selectors, k, id) ==
    IF k > Len(selectors) THEN [html |-> html, css |-> style]
    ELSE LET name == Tail(selectors[k])
             scoped_name == name \o <<"_">> \o id
         IN  ScopeLoop(replace(html, name, scoped_name), replace(style, name, scoped_name),
                       selectors, k + 1, id)

scope_css_selectors(html, style, id) == ScopeLoop(html, style, findall(style, 1), 1, id)

MaxCss == 5

\* the decimal text of the identifiers random.randint(0, 99999) may return
ScopeIds == { <<"7">>, <<"4", "2">> }

Markups == { <<"a">>, <<"a", "b">>, <<"b", " ", "a">> }

InitScope ==
    /\ pc = "input"
    /\ css \in Texts({".", "a", "b", " ", "1"}, MaxCss)
    /\ markup \in Markups
    /\ scope_id = <<>>
    /\ scopeOut = <<>>
    /\ EvalIdle /\ CondIdle /\ CompIdle /\ SigIdle

\* load_component, for a component that has a style sheet
LoadStyled ==
    /\ pc = "input"
    /\ \E id \in ScopeIds :
          /\ scope_id' = id
          /\ scopeOut' = scope_css_selectors(markup, css, id)
    /\ pc' = "done"
    /\ UNCHANGED <<css, markup, evalVars, condVars, compVars, sigVars>>

NextScope == LoadStyled

SpecScope == InitScope /\ [][NextScope]_vars

(***************************************************************************)
(* Claim about scoping (checked under SpecScope)                           *)
(***************************************************************************)
\* the words of a class list
RECURSIVE Words(_)
Words(text) ==
    LET sp == Find(text, <<" ">>, 1)
    IN  IF sp = 0 THEN <<text>>
        ELSE <<Slice(text, 1, sp - 1)>> \o Words(Slice(text, sp + 1, Len(text)))

\* a class selector: a dot and a class name
IsSelector(w) ==
    /\ Len(w) >= 2
    /\ w[1] = "." /\ w[2] \in NameStart
    /\ \A k \in 3..Len(w) : w[k] \in NameChars

\* the style sheet is a list of class selectors separated by single blanks
SelectorList(style) == \A k \in 1..Len(Words(style)) : IsSelector(Words(style)[k])

ClassNames(style) == {Tail(Words(style)[k]) : k \in 1..Len(Words(style))}

Suffixed(name) == name \o <<"_">> \o scope_id

\* C6: every class name c that occurs as a selector .c in the style sheet is
\* rewritten to exactly c_s, the suffix applied once, in the returned style text
\* and in the returned markup, also when .c occurs more than once and when one
\* class name is a prefix or a substring of another.
C6_SuffixedOnce ==
    (pc = "done" /\ SelectorList(css)) =>
        /\ Words(scopeOut.css) = [k \in 1..Len(Words(css)) |-> Suffixed(Words(css)[k])]
        /\ Len(Words(scopeOut.html)) = Len(Words(markup))
        /\ \A k \in 1..Len(Words(markup)) :
              Words(markup)[k] \in ClassNames(css)
                  => Words(scopeOut.html)[k] = Suffixed(Words(markup)[k])

(***************************************************************************)
(* Component processing: expanding <c-name> invocations                    *)
(*                                                                         *)
(* Markup is a sequence of tokens: a piece of text "t", a self-closing     *)
(* invocation "<c-n/>", an opening tag "<c-n>", a closing tag "</c-n>",    *)
(* and, in a component body, the placeholder "{children}".  Invocations    *)
(* carry no attributes, and the components have neither a script nor a     *)
(* style sheet (scoping is modelled on its own above).                     *)
(***************************************************************************)
Names == {"a", "b", "z"}

\* the names that have a directory under components/ (known_components)
known_components == {"a", "b"}

SelfTag(n) == CASE n = "a" -> "<c-a/>" [] n = "b" -> "<c-b/>" [] n = "z" -> "<c-z/>"
OpenTag(n) == CASE n = "a" -> "<c-a>" [] n = "b" -> "<c-b>" [] n = "z" -> "<c-z>"
CloseTag(n) == CASE n = "a" -> "</c-a>" [] n = "b" -> "</c-b>" [] n = "z" -> "</c-z>"
UnknownComment(n) ==
    CASE n = "a" -> "<!-- Unknown component: a -->"
      [] n = "b" -> "<!-- Unknown component: b -->"
      [] n = "z" -> "<!-- Unknown component: z -->"
NotFoundComment(n) ==
    CASE n = "a" -> "<!-- Component 'a' not found -->"
      [] n = "b" -> "<!-- Component 'b' not found -->"
      [] n = "z" -> "<!-- Component 'z' not found -->"

IsSelfTag(tok) == \E n \in Names : tok = SelfTag(n)
IsOpenTag(tok) == \E n \in Names : tok = OpenTag(n)
NameOf(tok) == CHOOSE n \in Names : tok \in {SelfTag(n), OpenTag(n), CloseTag(n)}

\* load_component: the body with {children} substituted, or the marker of a
\* component whose html file is absent
load_component(name, children, defs) ==
    IF ~defs[name].exists THEN <<NotFoundComment(name)>>
    ELSE replace(defs[name].html, <<"{children}">>, children)

\* replace_match: what one matched invocation is replaced by
replace_match(component_name, children, defs) ==
    IF component_name \notin known_components THEN <<UnknownComment(component_name)>>
    ELSE load_component(component_name, children, defs)

\* COMPONENT_PATTERN.sub(replace_match, content) from position p on: one pass,
\* left to right, over the non-overlapping matches; ">(.*?)</c-\1>" pairs an
\* opening tag with the first closing tag of its name
\* where ">(.*?)</c-\1>" ends for the opening tag at p: the first closing tag
\* of its name after p, 0 when there is none
closing_tag(text, p) == Find(text, <<CloseTag(NameOf(text[p]))>>, p + 1)

\* match.group(3) of the paired invocation that opens at p
children_of(text, p) == Slice(text, p + 1, closing_tag(text, p) - 1)

RECURSIVE Sub(_, _, _)
Sub(text, p, defs) ==
    IF p > Len(text) THEN <<>>
    ELSE IF IsSelfTag(text[p])
         THEN replace_match(NameOf(text[p]), <<>>, defs) \o Sub(text, p + 1, defs)
    ELSE LET close == IF IsOpenTag(text[p]) THEN closing_tag(text, p) ELSE 0
         IN  IF close > 0
             THEN replace_match(NameOf(text[p]), children_of(text, p), defs)
                      \o Sub(text, close + 1, defs)
             ELSE <<text[p]>> \o Sub(text, p + 1, defs)

process_components(text, defs) == Sub(text, 1, defs)

MaxContent == 4

PageTokens == {"t", "<c-a/>", "<c-b/>", "<c-z/>", "<c-a>", "</c-a>"}

Stored(body) == [exists |-> TRUE, html |-> body]
Absent == [exists |-> FALSE, html |-> <<>>]

BodiesA == { Stored(<<"t">>), Stored(<<"{children}">>), Stored(<<"t", "<c-b/>">>),
             Stored(<<"<c-a/>">>), Absent }
BodiesB == { Stored(<<"t">>), Stored(<<"<c-a>", "t", "</c-a>">>) }

InitComp ==
    /\ pc = "input"
    /\ content \in Texts(PageTokens, MaxContent)
    /\ \E a \in BodiesA, b \in BodiesB : components = [n \in known_components |-> IF n = "a" THEN a ELSE b]
    /\ compOut = <<>>
    /\ EvalIdle /\ CondIdle /\ ScopeIdle /\ SigIdle

Expand ==
    /\ pc = "input"
    /\ compOut' = process_components(content, components)
    /\ pc' = "done"
    /\ UNCHANGED <<content, components, evalVars, condVars, scopeVars, sigVars>>

NextComp == Expand

SpecComp == InitComp /\ [][NextComp]_vars

(***************************************************************************)
(* Claim about component expansion (checked under SpecComp)                *)
(***************************************************************************)
\* the text holds an invocation of component n: a self-closing tag, or an
\* opening tag with a closing tag after it
Invokes(text, n) ==
    \E p \in 1..Len(text) :
        \/ text[p] = SelfTag(n)
        \/ text[p] = OpenTag(n) /\ \E q \in (p + 1)..Len(text) : text[q] = CloseTag(n)

Calls(n) == {m \in known_components : components[n].exists /\ Invokes(components[n].html, m)}

RECURSIVE CallsWithin(_, _)
CallsWithin(n, steps) ==
    IF steps = 0 THEN {}
    ELSE Calls(n) \cup UNION {CallsWithin(m, steps - 1) : m \in Calls(n)}

\* no component invokes itself, directly or through other components
Acyclic == \A n \in known_components : n \notin CallsWithin(n, Cardinality(known_components))

\* C5: when no component invokes itself directly or transitively, the markup
\* process_components returns holds no invocation of a known component.
C5_FullyExpanded ==
    (pc = "done" /\ Acyclic) => \A n \in known_components : ~Invokes(compOut, n)

\* how many paired invocations of n are open after the first k tokens
TagDepth(text, n, k) == Count(text, OpenTag(n), k) - Count(text, CloseTag(n), k)

\* the page's opening and closing tags of n pair up, and some paired invocation
\* of n lies inside another one
NestsSameName(text, n) ==
    /\ Balanced(text, OpenTag(n), CloseTag(n))
    /\ \E k \in 1..Len(text) : TagDepth(text, n, k) >= 2

\* the first opening tag of n, and the closing tag that balances it
FirstOpen(text, n) == Find(text, <<OpenTag(n)>>, 1)
BalancedClose(text, n) ==
    CHOOSE q \in (FirstOpen(text, n) + 1)..Len(text) :
        /\ TagDepth(text, n, q) = 0
        /\ \A k \in FirstOpen(text, n)..(q - 1) : TagDepth(text, n, k) > 0

\* a closing tag of n with no opening tag left to pair it with
UnmatchedClose(text, n) == \E k \in 1..Len(text) : TagDepth(text, n, k) < 0

\* C11: on a page where a paired invocation of n holds another paired
\* invocation of n, the outer invocation receives as children everything up to
\* its own balanced closing tag, and the returned markup holds no closing tag
\* of n without an opening tag before it.
C11_SameNameBalanced ==
    \A n \in known_components :
        (pc = "done" /\ NestsSameName(content, n)) =>
            /\ children_of(content, FirstOpen(content, n))
                  = Slice(content, FirstOpen(content, n) + 1, BalancedClose(content, n) - 1)
            /\ ~UnmatchedClose(compOut, n)

(***************************************************************************)
(* Signal expression processing                                            *)
(*                                                                         *)
(* A page is a sequence of start tags; a tag is its list of attributes and *)
(* whether it is self-closing.  An attribute is a visibility binding       *)
(* data-signal-if="expr" ("if"), a class binding                           *)
(* data-signal-class.cls="expr" ("class"), any other attribute ("plain"),  *)
(* or one the transforms write: data-signal-checker="__computed_n"         *)
(* ("checker") and data-signal-class-id="__sc_n" ("classid").  Values are  *)
(* double-quoted and not empty; an expression is a sequence of the tokens  *)
(* "${a}", "${b}", ">" and "3".                                            *)
(***************************************************************************)
IfAttr(e) == [k |-> "if", cls |-> "", expr |-> e, n |-> 0]
ClassAttr(c, e) == [k |-> "class", cls |-> c, expr |-> e, n |-> 0]
PlainAttr(e) == [k |-> "plain", cls |-> "", expr |-> e, n |-> 0]
CheckerAttr(n) == [k |-> "checker", cls |-> "", expr |-> <<>>, n |-> n]
ClassIdAttr(n) == [k |-> "classid", cls |-> "", expr |-> <<>>, n |-> n]

IsSignalRef(tok) == tok \in {"${a}", "${b}"}
SignalOf(tok) == CASE tok = "${a}" -> "a" [] tok = "${b}" -> "b"
GetOf(tok) == CASE tok = "${a}" -> "a.get()" [] tok = "${b}" -> "b.get()"

\* SIGNAL_VAR_PATTERN.findall(expression): the referenced names, in order
RECURSIVE referenced_signals(_)
referenced_signals(e) ==
    IF e = <<>> THEN <<>>
    ELSE (IF IsSignalRef(e[1]) THEN <<SignalOf(e[1])>> ELSE <<>>) \o referenced_signals(Tail(e))

\* SIGNAL_VAR_PATTERN.sub(r'\1.get()', expression)
js_expression(e) == [j \in 1..Len(e) |-> IF IsSignalRef(e[j]) THEN GetOf(e[j]) ELSE e[j]]

reset_signal_counter(counter) == 0

\* the attribute SIGNAL_IF_PATTERN matches in a tag, 0 for no match:
\* (<\w+[^>]*)\s+data-signal-if="([^"]+)"([^>]*>) takes the last visibility
\* binding that no ">" precedes inside the tag
SignalIfMatch(tag) ==
    LET hits == {j \in 1..Len(tag.attrs) :
                    /\ tag.attrs[j].k = "if" /\ tag.attrs[j].expr # <<>>
                    /\ \A m \in 1..(j - 1) : ">" \notin Range(tag.attrs[m].expr)}
    IN  IF hits = {} THEN 0 ELSE CHOOSE j \in hits : \A m \in hits : m <= j

\* SIGNAL_IF_PATTERN.sub(replace_signal_if, html) from tag i on
RECURSIVE IfLoop(_, _, _)
IfLoop(tags, i, counter) ==
    IF i > Len(tags) THEN [html |-> <<>>, js |-> <<>>, counter |-> counter]
    ELSE LET j == SignalIfMatch(tags[i])
         IN  IF j = 0
             THEN LET rest == IfLoop(tags, i + 1, counter)
                  IN  [rest EXCEPT !.html = <<tags[i]>> \o @]
             ELSE LET rest == IfLoop(tags, i + 1, counter + 1)
                      expression == tags[i].attrs[j].expr
                      line == [name |-> counter, body |-> js_expression(expression),
                               deps |-> referenced_signals(expression)]
                  IN  [rest EXCEPT
                         !.html = <<[tags[i] EXCEPT !.attrs[j] = CheckerAttr(counter)]>> \o @,
                         !.js = <<line>> \o @]

process_signal_if(tags, counter) == IfLoop(tags, 1, counter)

\* sorted(s): by code point
RECURSIVE sorted(_)
sorted(S) ==
    IF S = {} THEN <<>>
    ELSE LET least == CHOOSE x \in S : \A y \in S : Code(x) <= Code(y)
         IN  <<least>> \o sorted(S \ {least})

\* what SIGNAL_CLASS_PATTERN matches: a class binding with a non-empty value
IsBinding(a) == a.k = "class" /\ a.expr # <<>>

\* SIGNAL_CLASS_PATTERN.findall(attrs)
RECURSIVE bindings_of(_)
bindings_of(attrs) ==
    IF attrs = <<>> THEN <<>>
    ELSE (IF IsBinding(attrs[1]) THEN <<attrs[1]>> ELSE <<>>) \o bindings_of(Tail(attrs))

\* SIGNAL_CLASS_PATTERN.sub('', attrs)
RECURSIVE cleaned_attrs(_)
cleaned_attrs(attrs) ==
    IF attrs = <<>> THEN <<>>
    ELSE (IF IsBinding(attrs[1]) THEN <<>> ELSE <<attrs[1]>>) \o cleaned_attrs(Tail(attrs))

RECURSIVE AllRefs(_)
AllRefs(bindings) ==
    IF bindings = <<>> THEN <<>>
    ELSE referenced_signals(bindings[1].expr) \o AllRefs(Tail(bindings))

\* the subscription list a careless build would emit: references in order of
\* appearance, repeated ones kept
deps_in_order(bindings) == AllRefs(bindings)

\* deps_array: sorted(all_deps), all_deps the set of every referenced signal
deps_array(bindings) == sorted(Range(AllRefs(bindings)))

\* process_element for a tag that has bindings: the rewritten tag and its block
process_element(tag, element_counter) ==
    LET bindings == bindings_of(tag.attrs)
    IN  [ tag |-> [tag EXCEPT !.attrs = <<ClassIdAttr(element_counter)>>
                                            \o cleaned_attrs(tag.attrs)],
          block |-> [ id |-> element_counter,
                      updates |-> [j \in 1..Len(bindings) |->
                                      [cls |-> bindings[j].cls,
                                       body |-> js_expression(bindings[j].expr)]],
                      deps |-> deps_array(bindings) ] ]

\* ALL_TAGS.sub(process_element, html) from tag i on
RECURSIVE ClassLoop(_, _, _)
ClassLoop(tags, i, element_counter) ==
    IF i > Len(tags) THEN [html |-> <<>>, js |-> <<>>]
    ELSE IF bindings_of(tags[i].attrs) = <<>>
         THEN LET rest == ClassLoop(tags, i + 1, element_counter)
              IN  [rest EXCEPT !.html = <<tags[i]>> \o @]
         ELSE LET rest == ClassLoop(tags, i + 1, element_counter + 1)
                  done == process_element(tags[i], element_counter)
              IN  [html |-> <<done.tag>> \o rest.html, js |-> <<done.block>> \o rest.js]

process_signal_classes(tags) == ClassLoop(tags, 1, 0)

process_signal_expressions(tags, counter) ==
    LET visible == process_signal_if(tags, reset_signal_counter(counter))
        classes == process_signal_classes(visible.html)
    IN  [ html |-> classes.html,
          after_if |-> visible.html,
          signal_if_js |-> visible.js,
          signal_class_js |-> classes.js,
          script |-> visible.js # <<>> \/ classes.js # <<>>,
          counter |-> visible.counter ]

MaxTags == 2
MaxAttrs == 3
MaxBuilds == 2

AttrSet ==
    { IfAttr(<<"${b}", ">", "3">>),
      ClassAttr("big", <<"${b}", ">", "3">>), ClassAttr("hid", <<"${b}", "${a}">>),
      PlainAttr(<<"3">>) }

RECURSIVE TotalAttrs(_)
TotalAttrs(tags) == IF tags = <<>> THEN 0 ELSE Len(tags[1].attrs) + TotalAttrs(Tail(tags))

InitSignal ==
    /\ pc = "input"
    /\ signal_counter = 0
    /\ sigHtml = <<>>
    /\ sigOut = <<>>
    /\ builds = 0
    /\ EvalIdle /\ CondIdle /\ ScopeIdle /\ CompIdle

\* the author opens a new element
AddTag ==
    /\ pc = "input" /\ builds < MaxBuilds
    /\ Len(sigHtml) < MaxTags
    /\ \E self \in BOOLEAN : sigHtml' = Append(sigHtml, [attrs |-> <<>>, self |-> self])
    /\ UNCHANGED <<pc, signal_counter, sigOut, builds, evalVars, condVars, scopeVars, compVars>>

\* the author writes one more attribute on the last element
AddAttr ==
    /\ pc = "input" /\ builds < MaxBuilds
    /\ sigHtml # <<>> /\ TotalAttrs(sigHtml) < MaxAttrs
    /\ \E a \in AttrSet : sigHtml' = [sigHtml EXCEPT ![Len(sigHtml)].attrs = Append(@, a)]
    /\ UNCHANGED <<pc, signal_counter, sigOut, builds, evalVars, condVars, scopeVars, compVars>>

\* generate_page calls process_signal_expressions on the page
BuildPage ==
    /\ pc = "input" /\ builds < MaxBuilds
    /\ LET r == process_signal_expressions(sigHtml, signal_counter)
       IN  /\ sigOut' = r
           /\ signal_counter' = r.counter
    /\ builds' = builds + 1
    /\ pc' = "done"
    /\ UNCHANGED <<sigHtml, evalVars, condVars, scopeVars, compVars>>

\* the build goes on to the next page source
NextPage ==
    /\ pc = "done" /\ builds < MaxBuilds
    /\ pc' = "input"
    /\ sigHtml' = <<>>
    /\ sigOut' = <<>>
    /\ UNCHANGED <<signal_counter, builds, evalVars, condVars, scopeVars, compVars>>

NextSignal == AddTag \/ AddAttr \/ BuildPage \/ NextPage

SpecSignal == InitSignal /\ [][NextSignal]_vars

\* The page source and what process_signal_expressions made of it
Built == pc = "done" /\ builds > 0
HasAttr(tag, kind) == \E j \in 1..Len(tag.attrs) : tag.attrs[j].k = kind
AttrsOf(tag, kind) == {j \in 1..Len(tag.attrs) : tag.attrs[j].k = kind}
Carriers(tags, kind) == {i \in 1..Len(tags) : HasAttr(tags[i], kind)}
\* how many elements carrying the binding precede element i
Rank(tags, kind, i) == Cardinality({m \in Carriers(tags, kind) : m < i})

\* C8: after any sequence of page builds, the k-th element of the page that
\* carries a visibility binding (k from 0) holds a reference to the computed
\* signal number k, exactly one definition exists for it, and there are as
\* many definitions as such elements, whatever earlier pages contained.
C8_NumberedPerPage ==
    Built =>
        /\ Len(sigOut.signal_if_js) = Cardinality(Carriers(sigHtml, "if"))
        /\ \A i \in Carriers(sigHtml, "if") :
              LET k == Rank(sigHtml, "if", i)
              IN  /\ \E j \in AttrsOf(sigOut.html[i], "checker") :
                          sigOut.html[i].attrs[j].n = k
                  /\ Cardinality({d \in 1..Len(sigOut.signal_if_js) :
                                     sigOut.signal_if_js[d].name = k}) = 1

\* the signals a class binding's expression references
Referenced(a) == {SignalOf(tok) : tok \in {t \in Range(a.expr) : IsSignalRef(t)}}
Ascending(names) ==
    \A x, y \in 1..Len(names) : x < y => Code(names[x]) < Code(names[y])

=============================================================================
